---- MODULE Spec2Model ----
(***************************************************************************)
(* Token transfer ledger: db.TransferTokens (src/internal/db/wallet.go)    *)
(* running against the PostgreSQL tables of sql/init.sql.                  *)
(*                                                                         *)
(* Every call of TransferTokens is a process that walks through the        *)
(* statements of the function one at a time; calls interleave between      *)
(* statements.  The store is PostgreSQL at its default isolation level,    *)
(* READ COMMITTED, which is what DB.Begin() without options gives          *)
(* (wallet.go:29; postgres:16-alpine in docker-compose.yaml):              *)
(*   - a SELECT reads the rows committed when the statement starts, plus   *)
(*     the transaction's own writes; it takes no lock and never waits;     *)
(*   - an UPDATE of a row another open transaction has written waits for   *)
(*     that transaction to end and then applies its SET clause to the      *)
(*     newest committed version of the row;                                *)
(*   - an INSERT of a key another open transaction has written waits too,  *)
(*     and fails with a unique violation when a committed row has the key; *)
(*   - writes are private to the transaction until COMMIT, and ROLLBACK    *)
(*     discards them; row locks are held until the transaction ends;       *)
(*   - transactions waiting for each other in a cycle are found by the     *)
(*     deadlock detector, which aborts one of them with an error;          *)
(*   - the SERIAL id of a transfer is drawn when the row is inserted, and  *)
(*     a draw is not undone by ROLLBACK.                                   *)
(***************************************************************************)
EXTENDS Integers, Sequences, FiniteSets, TLC

VARIABLES
    wallets,     \* committed rows of table wallets: address -> balance
    transfers,   \* committed rows of table transfers, in commit order
    nextId,      \* the sequence behind transfers.id
    pc,          \* per call: the statement of TransferTokens it is at
    args,        \* per call: fromAddress, toAddress, amount
    local,       \* per call: senderBalance, newSenderBalance, receiverExists
    writes,      \* per call: the wallet rows its open transaction has written
    pending,     \* per call: the transfers rows its open transaction has written
    result,      \* per call: the (string, error) pair it returned
    plan,        \* per call: the argument triples the caller may pass
    start,       \* the wallets table before the first call
    ncalls,      \* calls a caller of the sequential runs has completed
    nsetups,     \* SetupWallet statements executed
    seen,        \* what the last GetWallet call returned
    expired,     \* the calls whose caller's deadline has passed
    big,         \* a call on balances beyond machine integers, in decimal digits
    pass         \* a reader's passes over the wallets, one point read at a time

vars == <<wallets, transfers, nextId, pc, args, local, writes, pending, result,
          plan, start, ncalls, nsetups, seen, expired, big, pass>>

(***************************************************************************)
(* Bounds of the model.                                                    *)
(***************************************************************************)
MaxSeqCalls == 2     \* calls in a row of the sequential runs
MaxSetups == 1       \* SetupWallet statements before the calls start
MaxAmount == 2       \* valid amounts are "1" .. MaxAmount
MaxBalance == 2      \* starting balances are 0 .. MaxBalance

(***************************************************************************)
(* Decimal strings.  A string is a sequence of one-character strings.      *)
(***************************************************************************)
Digits == <<"0", "1", "2", "3", "4", "5", "6", "7", "8", "9">>

IsDigit(c) == \E i \in 1..Len(Digits) : Digits[i] = c

DigitVal(c) == (CHOOSE i \in 1..Len(Digits) : Digits[i] = c) - 1

RECURSIVE DigitsVal(_)
DigitsVal(s) ==
    IF s = <<>> THEN 0
    ELSE DigitsVal(SubSeq(s, 1, Len(s) - 1)) * Len(Digits) + DigitVal(s[Len(s)])

\* big.Int.SetString(s, 10): an optional sign, then one digit or more, and
\* nothing else.
SetString(s) ==
    LET signed == s # <<>> /\ s[1] \in {"+", "-"}
        body   == IF signed THEN Tail(s) ELSE s
        ok     == body # <<>> /\ \A i \in 1..Len(body) : IsDigit(body[i])
    IN  [ok  |-> ok,
         val |-> IF ~ok THEN 0
                 ELSE IF signed /\ s[1] = "-" THEN 0 - DigitsVal(body)
                 ELSE DigitsVal(body)]

RECURSIVE NatString(_)
NatString(n) ==
    IF n < Len(Digits) THEN <<Digits[n + 1]>>
    ELSE NatString(n \div Len(Digits)) \o <<Digits[(n % Len(Digits)) + 1]>>

\* big.Int.String(), and the text PostgreSQL sends for a DECIMAL(78, 0).
String(n) == IF n < 0 THEN <<"-">> \o NatString(0 - n) ELSE NatString(n)

\* big.Int.Cmp: -1, 0 or +1.
Cmp(x, y) == IF x < y THEN 0 - 1 ELSE IF x > y THEN 1 ELSE 0

(***************************************************************************)
(* Errors.                                                                 *)
(***************************************************************************)
NoError == "nil"
ErrInvalidAmount == "invalid amount"
ErrSenderNotFound == "sender wallet does not exist"
ErrBalanceFormat == "invalid sender balance format"
ErrInsufficient == "insufficient balance"
ErrCheck == "pq: new row for relation wallets violates check constraint"
ErrDuplicate == "pq: duplicate key value violates unique constraint"
ErrForeignKey == "pq: insert on table transfers violates foreign key constraint"
ErrDeadlock == "pq: deadlock detected"
ErrStore == "store failure"

StoreErrors == {ErrCheck, ErrDuplicate, ErrForeignKey, ErrDeadlock, ErrStore}

(***************************************************************************)
(* The store.                                                              *)
(***************************************************************************)
NoRows == [a \in {} |-> 0]

Calls == DOMAIN pc

\* CHECK (balance >= 0) of table wallets.
BalanceCheck_none(b) == TRUE

BalanceCheck(b) == b >= 0

\* CHECK (amount > 0) of table transfers.
AmountCheck(n) == n > 0

\* The rows a statement of call t reads: committed rows, under t's own writes.
Visible(t) ==
    [a \in DOMAIN wallets \cup DOMAIN writes[t] |->
        IF a \in DOMAIN writes[t] THEN writes[t][a] ELSE wallets[a]]

\* Row a is write-locked by an open transaction other than t's.
LockedByOther_never(t, a) == FALSE

LockedByOther_table(t, a) == \E u \in Calls \ {t} : writes[u] # NoRows

LockedByOther(t, a) == \E u \in Calls \ {t} : a \in DOMAIN writes[u]

WriteRow_table(t, a, b) ==
    writes' = [writes EXCEPT ![t] = [x \in DOMAIN Visible(t) \cup {a} |-> b]]

WriteRow(t, a, b) ==
    writes' = [writes EXCEPT ![t] =
                  [x \in DOMAIN writes[t] \cup {a} |->
                      IF x = a THEN b ELSE writes[t][x]]]

\* tx.Rollback(), deferred at wallet.go:33: every write of the transaction
\* is discarded and its locks are released.
Rollback_partial(t) ==
    /\ wallets' = [a \in DOMAIN wallets |->
                      IF a \in DOMAIN writes[t] THEN writes[t][a] ELSE wallets[a]]
    /\ transfers' = transfers
    /\ writes' = [writes EXCEPT ![t] = NoRows]
    /\ pending' = [pending EXCEPT ![t] = <<>>]

Rollback_leak(t) ==
    /\ wallets' = wallets
    /\ transfers' = transfers
    /\ writes' = writes
    /\ pending' = pending

Rollback(t) ==
    /\ wallets' = wallets
    /\ transfers' = transfers
    /\ writes' = [writes EXCEPT ![t] = NoRows]
    /\ pending' = [pending EXCEPT ![t] = <<>>]

Return(t, balance, err) ==
    /\ pc' = [pc EXCEPT ![t] = "done"]
    /\ result' = [result EXCEPT ![t] = [balance |-> balance, err |-> err]]

Amount(t) == SetString(args[t].amount).val

NoArgs == [from |-> "", to |-> "", amount |-> <<>>]
NoLocal == [senderBalance |-> <<>>, newSenderBalance |-> 0, receiverExists |-> FALSE]
NoResult == [balance |-> <<>>, err |-> ""]

\* A reader that has read nothing yet: the next wallet of its pass, the sum
\* of the pass so far, and the totals of its finished passes.
NoPass == [next |-> 1, sum |-> 0, totals |-> <<>>]

\* No call on large balances is made.
NoBig == [pc |-> "none"]

\* GetWallet's (nil, nil), and its result before any call.
NoWallet == [found |-> FALSE, address |-> "", balance |-> <<>>]

(***************************************************************************)
(* TransferTokens, statement by statement.                                 *)
(***************************************************************************)

\* wallet.go:25: the amount does not parse, or is not positive.
InvalidAmountArg_zero(s) == ~SetString(s).ok \/ Cmp(SetString(s).val, 0) < 0

InvalidAmountArg(s) == ~SetString(s).ok \/ Cmp(SetString(s).val, 0) <= 0

\* wallet.go:50: senderBalanceBig.Cmp(amountBig) < 0.
Insufficient_never(balance, amount) == FALSE

Insufficient_orEqual(balance, amount) == Cmp(balance, amount) <= 0

Insufficient(balance, amount) == Cmp(balance, amount) < 0

\* wallet.go:54: new(big.Int).Sub(senderBalanceBig, amountBig).
NewSenderBalance_keep(balance, amount) == balance

NewSenderBalance(balance, amount) == balance - amount

\* wallet.go:68: SET balance = balance + $1.
Credited_set(balance, amount) == amount

Credited(balance, amount) == balance + amount

\* wallet.go:22-27: the call is made and the amount is rejected.
InvalidAmount_afterSender(t) ==
    /\ pc[t] = "idle"
    /\ \E a \in plan[t] :
          /\ InvalidAmountArg(a.amount)
          /\ args' = [args EXCEPT ![t] = a]
          /\ Return(t, <<>>, IF a.from \in DOMAIN wallets THEN ErrInvalidAmount
                                                         ELSE ErrSenderNotFound)
    /\ UNCHANGED <<wallets, transfers, nextId, local, writes, pending, plan, start, ncalls, nsetups, seen, expired, big, pass>>

InvalidAmount(t) ==
    /\ pc[t] = "idle"
    /\ \E a \in plan[t] :
          /\ InvalidAmountArg(a.amount)
          /\ args' = [args EXCEPT ![t] = a]
    /\ Return(t, <<>>, ErrInvalidAmount)
    /\ UNCHANGED <<wallets, transfers, nextId, local, writes, pending, plan, start, ncalls, nsetups, seen, expired, big, pass>>

\* wallet.go:22-33: the call is made, the amount is accepted and the
\* transaction begins.
Begin(t) ==
    /\ pc[t] = "idle"
    /\ \E a \in plan[t] :
          /\ ~InvalidAmountArg(a.amount)
          /\ args' = [args EXCEPT ![t] = a]
    /\ pc' = [pc EXCEPT ![t] = "selectSender"]
    /\ UNCHANGED <<wallets, transfers, nextId, local, writes, pending, result,
                   plan, start, ncalls, nsetups, seen, expired, big, pass>>

\* wallet.go:29-32: DB.Begin() fails.
BeginFails(t) ==
    /\ pc[t] = "idle"
    /\ \E a \in plan[t] :
          /\ ~InvalidAmountArg(a.amount)
          /\ args' = [args EXCEPT ![t] = a]
    /\ Return(t, <<>>, ErrStore)
    /\ UNCHANGED <<wallets, transfers, nextId, local, writes, pending, plan, start, ncalls, nsetups, seen, expired, big, pass>>

\* wallet.go:35-40: the SELECT of the sender's balance finds no row.
SenderNotFound_insufficient(t) ==
    /\ pc[t] = "selectSender"
    /\ args[t].from \notin DOMAIN Visible(t)
    /\ Rollback(t)
    /\ Return(t, <<>>, ErrInsufficient)
    /\ UNCHANGED <<nextId, args, local, plan, start, ncalls, nsetups, seen, expired, big, pass>>

SenderNotFound(t) ==
    /\ pc[t] = "selectSender"
    /\ args[t].from \notin DOMAIN Visible(t)
    /\ Rollback(t)
    /\ Return(t, <<>>, ErrSenderNotFound)
    /\ UNCHANGED <<nextId, args, local, plan, start, ncalls, nsetups, seen, expired, big, pass>>

\* wallet.go:35-52: the sender's balance is read and is less than the amount
\* (or is no decimal number).
InsufficientBalance(t) ==
    /\ pc[t] = "selectSender"
    /\ args[t].from \in DOMAIN Visible(t)
    /\ LET senderBalance == String(Visible(t)[args[t].from])
           parsed == SetString(senderBalance)
       IN  /\ ~parsed.ok \/ Insufficient(parsed.val, Amount(t))
           /\ local' = [local EXCEPT ![t].senderBalance = senderBalance]
           /\ Return(t, <<>>, IF parsed.ok THEN ErrInsufficient ELSE ErrBalanceFormat)
    /\ Rollback(t)
    /\ UNCHANGED <<nextId, args, plan, start, ncalls, nsetups, seen, expired, big, pass>>

\* wallet.go:35-54: the sender's balance is read and covers the amount.
SelectSender(t) ==
    /\ pc[t] = "selectSender"
    /\ args[t].from \in DOMAIN Visible(t)
    /\ LET senderBalance == String(Visible(t)[args[t].from])
           parsed == SetString(senderBalance)
       IN  /\ parsed.ok
           /\ ~Insufficient(parsed.val, Amount(t))
           /\ local' = [local EXCEPT
                  ![t].senderBalance = senderBalance,
                  ![t].newSenderBalance = NewSenderBalance(parsed.val, Amount(t))]
    /\ pc' = [pc EXCEPT ![t] = "updateSender"]
    /\ UNCHANGED <<wallets, transfers, nextId, args, writes, pending, result,
                   plan, start, ncalls, nsetups, seen, expired, big, pass>>

\* wallet.go:56-59: UPDATE wallets SET balance = $1 WHERE address = $2.
\* The statement waits while another open transaction holds the row.
UpdateSender(t) ==
    /\ pc[t] = "updateSender"
    /\ ~LockedByOther(t, args[t].from)
    /\ LET new == SetString(String(local[t].newSenderBalance)).val
       IN  IF args[t].from \notin DOMAIN Visible(t)
           THEN /\ pc' = [pc EXCEPT ![t] = "receiverExists"]
                /\ UNCHANGED <<wallets, transfers, writes, pending, result>>
           ELSE IF BalanceCheck(new)
           THEN /\ WriteRow(t, args[t].from, new)
                /\ pc' = [pc EXCEPT ![t] = "receiverExists"]
                /\ UNCHANGED <<wallets, transfers, pending, result>>
           ELSE /\ Rollback(t)
                /\ Return(t, <<>>, ErrCheck)
    /\ UNCHANGED <<nextId, args, local, plan, start, ncalls, nsetups, seen, expired, big, pass>>

\* wallet.go:61-65: SELECT EXISTS(SELECT 1 FROM wallets WHERE address = $1).
ReceiverExists(t) ==
    /\ pc[t] = "receiverExists"
    /\ local' = [local EXCEPT ![t].receiverExists = args[t].to \in DOMAIN Visible(t)]
    /\ pc' = [pc EXCEPT ![t] = "creditReceiver"]
    /\ UNCHANGED <<wallets, transfers, nextId, args, writes, pending, result,
                   plan, start, ncalls, nsetups, seen, expired, big, pass>>

\* wallet.go:67-68, 72-74: UPDATE wallets SET balance = balance + $1 WHERE
\* address = $2.  The statement waits while another open transaction holds
\* the row, then adds to the newest committed balance.
CreditReceiver_committed(t) ==
    /\ pc[t] = "creditReceiver"
    /\ local[t].receiverExists
    /\ ~LockedByOther(t, args[t].to)
    /\ args[t].to \in DOMAIN wallets
    /\ WriteRow(t, args[t].to, Credited(wallets[args[t].to], Amount(t)))
    /\ pc' = [pc EXCEPT ![t] = "insertTransfer"]
    /\ UNCHANGED <<wallets, transfers, pending, result>>
    /\ UNCHANGED <<nextId, args, local, plan, start, ncalls, nsetups, seen, expired, big, pass>>

CreditReceiver(t) ==
    /\ pc[t] = "creditReceiver"
    /\ local[t].receiverExists
    /\ ~LockedByOther(t, args[t].to)
    /\ IF args[t].to \notin DOMAIN Visible(t)
       THEN /\ pc' = [pc EXCEPT ![t] = "insertTransfer"]
            /\ UNCHANGED <<wallets, transfers, writes, pending, result>>
       ELSE IF BalanceCheck(Credited(Visible(t)[args[t].to], Amount(t)))
       THEN /\ WriteRow(t, args[t].to, Credited(Visible(t)[args[t].to], Amount(t)))
            /\ pc' = [pc EXCEPT ![t] = "insertTransfer"]
            /\ UNCHANGED <<wallets, transfers, pending, result>>
       ELSE /\ Rollback(t)
            /\ Return(t, <<>>, ErrCheck)
    /\ UNCHANGED <<nextId, args, local, plan, start, ncalls, nsetups, seen, expired, big, pass>>

\* wallet.go:69-74: INSERT INTO wallets (address, balance) VALUES ($1, $2),
\* no row has the address.
CreateReceiver_empty(t) ==
    /\ pc[t] = "creditReceiver"
    /\ ~local[t].receiverExists
    /\ ~LockedByOther(t, args[t].to)
    /\ args[t].to \notin DOMAIN Visible(t)
    /\ WriteRow(t, args[t].to, 0)
    /\ pc' = [pc EXCEPT ![t] = "insertTransfer"]
    /\ UNCHANGED <<wallets, transfers, pending, result>>
    /\ UNCHANGED <<nextId, args, local, plan, start, ncalls, nsetups, seen, expired, big, pass>>

CreateReceiver(t) ==
    /\ pc[t] = "creditReceiver"
    /\ ~local[t].receiverExists
    /\ ~LockedByOther(t, args[t].to)
    /\ args[t].to \notin DOMAIN Visible(t)
    /\ IF BalanceCheck(Amount(t))
       THEN /\ WriteRow(t, args[t].to, Amount(t))
            /\ pc' = [pc EXCEPT ![t] = "insertTransfer"]
            /\ UNCHANGED <<wallets, transfers, pending, result>>
       ELSE /\ Rollback(t)
            /\ Return(t, <<>>, ErrCheck)
    /\ UNCHANGED <<nextId, args, local, plan, start, ncalls, nsetups, seen, expired, big, pass>>

\* wallet.go:69-74: the INSERT finds a row with the address, committed by
\* another call since the SELECT EXISTS: a unique violation of the primary key.
DuplicateReceiver_nokey(t) ==
    /\ pc[t] = "creditReceiver"
    /\ ~local[t].receiverExists
    /\ ~LockedByOther(t, args[t].to)
    /\ args[t].to \in DOMAIN Visible(t)
    /\ WriteRow(t, args[t].to, Amount(t))
    /\ pc' = [pc EXCEPT ![t] = "insertTransfer"]
    /\ UNCHANGED <<wallets, transfers, pending, result>>
    /\ UNCHANGED <<nextId, args, local, plan, start, ncalls, nsetups, seen, expired, big, pass>>

DuplicateReceiver(t) ==
    /\ pc[t] = "creditReceiver"
    /\ ~local[t].receiverExists
    /\ ~LockedByOther(t, args[t].to)
    /\ args[t].to \in DOMAIN Visible(t)
    /\ Rollback(t)
    /\ Return(t, <<>>, ErrDuplicate)
    /\ UNCHANGED <<nextId, args, local, plan, start, ncalls, nsetups, seen, expired, big, pass>>

\* wallet.go:76-80: INSERT INTO transfers (from_address, to_address, amount).
\* The id is drawn from the sequence; both addresses must be rows of wallets.
InsertTransfer(t) ==
    /\ pc[t] = "insertTransfer"
    /\ nextId' = nextId + 1
    /\ IF /\ {args[t].from, args[t].to} \subseteq DOMAIN Visible(t)
          /\ AmountCheck(Amount(t))
       THEN /\ pending' = [pending EXCEPT ![t] =
                   Append(@, [id |-> nextId, from |-> args[t].from,
                              to |-> args[t].to, amount |-> Amount(t)])]
            /\ pc' = [pc EXCEPT ![t] = "commit"]
            /\ UNCHANGED <<wallets, transfers, writes, result>>
       ELSE /\ Rollback(t)
            /\ Return(t, <<>>, IF AmountCheck(Amount(t)) THEN ErrForeignKey ELSE ErrCheck)
    /\ UNCHANGED <<args, local, plan, start, ncalls, nsetups, seen, expired, big, pass>>

\* The tables after the transaction of call t commits.
Committed_ownrows(t) ==
    [wallets |-> writes[t], transfers |-> transfers \o pending[t]]

Committed_recordonly(t) ==
    [wallets |-> wallets, transfers |-> transfers \o pending[t]]

Committed_norecord(t) ==
    [wallets |-> Visible(t), transfers |-> transfers]

Committed(t) ==
    [wallets |-> Visible(t), transfers |-> transfers \o pending[t]]

\* wallet.go:82-86: tx.Commit() and the return of the new balance.
Commit(t) ==
    /\ pc[t] = "commit"
    /\ wallets' = Committed(t).wallets
    /\ transfers' = Committed(t).transfers
    /\ writes' = [writes EXCEPT ![t] = NoRows]
    /\ pending' = [pending EXCEPT ![t] = <<>>]
    /\ Return(t, String(local[t].newSenderBalance), NoError)
    /\ UNCHANGED <<nextId, args, local, plan, start, ncalls, nsetups, seen, expired, big, pass>>

InTransaction(t) ==
    pc[t] \in {"selectSender", "updateSender", "receiverExists", "creditReceiver",
               "insertTransfer", "commit"}

\* Call t waits for a row lock that call u holds.
WaitsFor(t, u) ==
    /\ t # u
    /\ \/ pc[t] = "updateSender" /\ args[t].from \in DOMAIN writes[u]
       \/ pc[t] = "creditReceiver" /\ args[t].to \in DOMAIN writes[u]

RECURSIVE WaitPath(_, _, _)
WaitPath(t, u, n) ==
    \/ WaitsFor(t, u)
    \/ n > 0 /\ \E v \in Calls \ {t} : WaitsFor(t, v) /\ WaitPath(v, u, n - 1)

InWaitCycle(t) == \E u \in Calls \ {t} : WaitsFor(t, u) /\ WaitPath(u, t, Cardinality(Calls))

\* wallet.go:56-59, 67-74: the statement t waits in is aborted by the
\* store's deadlock detector.
DeadlockDetected(t) ==
    /\ InWaitCycle(t)
    /\ Rollback(t)
    /\ Return(t, <<>>, ErrDeadlock)
    /\ UNCHANGED <<nextId, args, local, plan, start, ncalls, nsetups, seen, expired, big, pass>>

\* wallet.go:37-41, 57-59, 63-65, 72-74, 78-80, 82-84: a statement of the
\* open transaction fails in the store (connection lost, statement
\* cancelled), and the deferred Rollback runs.
StoreFailure(t) ==
    /\ InTransaction(t)
    /\ Rollback(t)
    /\ Return(t, <<>>, ErrStore)
    /\ UNCHANGED <<nextId, args, local, plan, start, ncalls, nsetups, seen, expired, big, pass>>

(***************************************************************************)
(* Runs of two concurrent calls with any arguments.                        *)
(***************************************************************************)
Addresses == {"A", "B", "X"}

ValidAmounts == {String(n) : n \in 1..MaxAmount}

InvalidAmounts == {<<"0">>, <<"-", "1">>, <<"x">>, <<>>}

Arguments(amounts) == [from : Addresses, to : Addresses, amount : amounts]

\* Wallets A and B exist with some balance; wallet X does not exist yet, or
\* exists and is empty.
StartLedgers ==
    [{"A", "B"} -> 0..MaxBalance]
        \cup {[a \in {"A", "B", "X"} |-> IF a = "X" THEN 0 ELSE l[a]] :
                 l \in [{"A", "B"} -> 0..MaxBalance]}

InitCalls(calls, ledgers, plans) ==
    /\ wallets \in ledgers
    /\ start = wallets
    /\ transfers = <<>>
    /\ nextId = 1
    /\ pc = [t \in calls |-> "idle"]
    /\ args = [t \in calls |-> NoArgs]
    /\ local = [t \in calls |-> NoLocal]
    /\ writes = [t \in calls |-> NoRows]
    /\ pending = [t \in calls |-> <<>>]
    /\ result = [t \in calls |-> NoResult]
    /\ plan \in plans
    /\ ncalls = 0
    /\ nsetups = 0
    /\ seen = NoWallet
    /\ expired = [t \in calls |-> FALSE]
    /\ big = NoBig
    /\ pass = NoPass

Callers == {"c1", "c2"}

Init == InitCalls(Callers, StartLedgers, {[t \in Callers |-> Arguments(ValidAmounts)]})

Next ==
    \E t \in Callers :
        \/ Begin(t)
        \/ SenderNotFound(t)
        \/ InsufficientBalance(t)
        \/ SelectSender(t)
        \/ UpdateSender(t)
        \/ ReceiverExists(t)
        \/ CreditReceiver(t)
        \/ CreateReceiver(t)
        \/ DuplicateReceiver(t)
        \/ InsertTransfer(t)
        \/ Commit(t)
        \/ DeadlockDetected(t)

Spec == Init /\ [][Next]_vars

AllDone == \A t \in Calls : pc[t] = "done"

Succeeded(t) == pc[t] = "done" /\ result[t].err = NoError

Failed(t) == pc[t] = "done" /\ result[t].err # NoError

RECURSIVE Sum(_, _)
Sum(f, S) ==
    IF S = {} THEN 0
    ELSE LET a == CHOOSE x \in S : TRUE IN f[a] + Sum(f, S \ {a})

Total(ledger) == Sum(ledger, DOMAIN ledger)

(***************************************************************************)
(* Runs of calls made one at a time by one caller, with any arguments and  *)
(* with store failures.                                                    *)
(***************************************************************************)
SeqCallers == {"c1"}

InitSeq ==
    InitCalls(SeqCallers, StartLedgers,
              {[t \in SeqCallers |-> Arguments(ValidAmounts \cup InvalidAmounts)]})

\* The caller has its result and makes its next call.
NextCall(t) ==
    /\ pc[t] = "done"
    /\ ncalls + 1 < MaxSeqCalls
    /\ ncalls' = ncalls + 1
    /\ pc' = [pc EXCEPT ![t] = "idle"]
    /\ args' = [args EXCEPT ![t] = NoArgs]
    /\ local' = [local EXCEPT ![t] = NoLocal]
    /\ result' = [result EXCEPT ![t] = NoResult]
    /\ UNCHANGED <<wallets, transfers, nextId, writes, pending, plan, start, nsetups, seen, expired, big, pass>>

NextSeq ==
    \E t \in SeqCallers :
        \/ InvalidAmount(t)
        \/ Begin(t)
        \/ BeginFails(t)
        \/ SenderNotFound(t)
        \/ InsufficientBalance(t)
        \/ SelectSender(t)
        \/ UpdateSender(t)
        \/ ReceiverExists(t)
        \/ CreditReceiver(t)
        \/ CreateReceiver(t)
        \/ InsertTransfer(t)
        \/ Commit(t)
        \/ StoreFailure(t)
        \/ NextCall(t)

SpecSeq == InitSeq /\ [][NextSeq]_vars

(***************************************************************************)
(* The race of ConcurrencyTestSuite.TestRaceConditions: wallet A holds 10, *)
(* wallets B, C and D hold 0, and three calls run concurrently.            *)
(***************************************************************************)
RaceBalance == 10
RaceCredit == 1
RaceDebitSmall == 4
RaceDebitLarge == 7

RaceCallers == {"credit", "debit4", "debit7"}

RaceLedger == [a \in {"A", "B", "C", "D"} |-> IF a = "A" THEN RaceBalance ELSE 0]

RacePlan ==
    [t \in RaceCallers |->
        CASE t = "credit" -> {[from |-> "B", to |-> "A", amount |-> String(RaceCredit)]}
          [] t = "debit4" -> {[from |-> "A", to |-> "C", amount |-> String(RaceDebitSmall)]}
          [] t = "debit7" -> {[from |-> "A", to |-> "D", amount |-> String(RaceDebitLarge)]}]

InitRace == InitCalls(RaceCallers, {RaceLedger}, {RacePlan})

NextRace ==
    \E t \in RaceCallers :
        \/ Begin(t)
        \/ InsufficientBalance(t)
        \/ SelectSender(t)
        \/ UpdateSender(t)
        \/ ReceiverExists(t)
        \/ CreditReceiver(t)
        \/ InsertTransfer(t)
        \/ Commit(t)

SpecRace == InitRace /\ [][NextRace]_vars

(***************************************************************************)
(* Runs of two concurrent calls on wallets set up by SetupWallet.          *)
(***************************************************************************)
SetupBalances == {String(n) : n \in (0 - 1)..MaxBalance}

\* ConcurrencyTestSuite.SetupWallet: INSERT INTO wallets (address, balance)
\* VALUES ($1, $2) ON CONFLICT (address) DO UPDATE SET balance = $2, a
\* statement of its own, run before the calls start.
SetupWallet(address, balance) ==
    /\ \A t \in Calls : pc[t] = "idle"
    /\ nsetups < MaxSetups
    /\ nsetups' = nsetups + 1
    /\ IF BalanceCheck(SetString(balance).val)
       THEN wallets' = [a \in DOMAIN wallets \cup {address} |->
                           IF a = address THEN SetString(balance).val ELSE wallets[a]]
       ELSE wallets' = wallets
    /\ start' = wallets'
    /\ UNCHANGED <<transfers, nextId, pc, args, local, writes, pending, result,
                   plan, ncalls, seen, expired, big, pass>>

FullLedgers == {l \in StartLedgers : l["A"] = MaxBalance /\ l["B"] = MaxBalance}

InitSetup == InitCalls(Callers, FullLedgers, {[t \in Callers |-> Arguments(ValidAmounts)]})

NextSetup ==
    \/ \E a \in Addresses, b \in SetupBalances : SetupWallet(a, b)
    \/ Next

SpecSetup == InitSetup /\ [][NextSetup]_vars

(***************************************************************************)
(* Runs of two concurrent calls with a reader calling GetWallet.           *)
(***************************************************************************)
\* wallet.go:10-20: SELECT address, balance FROM wallets WHERE address = $1,
\* a statement of its own outside any transaction: it reads committed rows.
GetWallet_dirty(address) ==
    /\ \E t \in Calls :
          seen' = IF address \in DOMAIN Visible(t)
                  THEN [found |-> TRUE, address |-> address,
                        balance |-> String(Visible(t)[address])]
                  ELSE NoWallet
    /\ UNCHANGED <<wallets, transfers, nextId, pc, args, local, writes, pending,
                   result, plan, start, ncalls, nsetups, expired, big, pass>>

GetWallet_create(address) ==
    /\ seen' = IF address \in DOMAIN wallets
               THEN [found |-> TRUE, address |-> address,
                     balance |-> String(wallets[address])]
               ELSE [found |-> TRUE, address |-> address, balance |-> String(0)]
    /\ wallets' = [a \in DOMAIN wallets \cup {address} |->
                      IF a \in DOMAIN wallets THEN wallets[a] ELSE 0]
    /\ UNCHANGED <<transfers, nextId, pc, args, local, writes, pending,
                   result, plan, start, ncalls, nsetups, expired, big, pass>>

GetWallet(address) ==
    /\ seen' = IF address \in DOMAIN wallets
               THEN [found |-> TRUE, address |-> address,
                     balance |-> String(wallets[address])]
               ELSE NoWallet
    /\ UNCHANGED <<wallets, transfers, nextId, pc, args, local, writes, pending,
                   result, plan, start, ncalls, nsetups, expired, big, pass>>

InitRead == InitCalls(Callers, FullLedgers, {[t \in Callers |-> Arguments(ValidAmounts)]})

NextRead ==
    \/ \E a \in Addresses : GetWallet(a)
    \/ Next

SpecRead == InitRead /\ [][NextRead]_vars

(***************************************************************************)
(* The run of ConcurrencyTestSuite.TestDeadlockPrevention: wallets W1 and  *)
(* W2 hold 1000 each; BidiPairs calls move 10 from W1 to W2 and as many    *)
(* move 5 from W2 to W1, all concurrently.                                 *)
(***************************************************************************)
BidiPairs == 2

BidiBalance == 1000
BidiForward == 10
BidiBackward == 5

BidiCallers == 1..(2 * BidiPairs)

BidiLedger == [a \in {"W1", "W2"} |-> BidiBalance]

BidiPlan ==
    [t \in BidiCallers |->
        IF t % 2 = 1
        THEN {[from |-> "W1", to |-> "W2", amount |-> String(BidiForward)]}
        ELSE {[from |-> "W2", to |-> "W1", amount |-> String(BidiBackward)]}]

InitBidi == InitCalls(BidiCallers, {BidiLedger}, {BidiPlan})

NextBidi ==
    \E t \in BidiCallers :
        \/ Begin(t)
        \/ SelectSender(t)
        \/ UpdateSender(t)
        \/ ReceiverExists(t)
        \/ CreditReceiver(t)
        \/ InsertTransfer(t)
        \/ Commit(t)
        \/ DeadlockDetected(t)

SpecBidi == InitBidi /\ [][NextBidi]_vars

(***************************************************************************)
(* Runs of two concurrent calls on disjoint pairs of existing wallets:     *)
(* one call moves tokens between A and B, the other between C and D.       *)
(***************************************************************************)
IndepLedgers == [{"A", "B", "C", "D"} -> 0..MaxBalance]

PairArguments(pair) ==
    {a \in [from : pair, to : pair, amount : ValidAmounts] : a.from # a.to}

IndepPlan ==
    [t \in Callers |->
        IF t = "c1" THEN PairArguments({"A", "B"}) ELSE PairArguments({"C", "D"})]

InitIndep == InitCalls(Callers, IndepLedgers, {IndepPlan})

\* A statement of call t's transaction executes.
Step(t) ==
    \/ InsufficientBalance(t)
    \/ SelectSender(t)
    \/ UpdateSender(t)
    \/ ReceiverExists(t)
    \/ CreditReceiver(t)
    \/ InsertTransfer(t)
    \/ Commit(t)

NextIndep ==
    \E t \in Callers :
        \/ Begin(t)
        \/ InsufficientBalance(t)
        \/ SelectSender(t)
        \/ UpdateSender(t)
        \/ ReceiverExists(t)
        \/ CreditReceiver(t)
        \/ InsertTransfer(t)
        \/ Commit(t)

SpecIndep == InitIndep /\ [][NextIndep]_vars

(***************************************************************************)
(* Runs of two concurrent calls whose callers' deadlines may pass.         *)
(***************************************************************************)
\* wallet.go:22-33: TransferTokens takes no context and opens its
\* transaction with DB.Begin(); its statements are tx.QueryRow and tx.Exec.
\* The deadline of the caller of call t passes while the call is in its
\* transaction, and no statement of the call learns of it.
DeadlineExpires(t) ==
    /\ InTransaction(t)
    /\ ~expired[t]
    /\ expired' = [expired EXCEPT ![t] = TRUE]
    /\ UNCHANGED <<wallets, transfers, nextId, pc, args, local, writes, pending,
                   result, plan, start, ncalls, nsetups, seen, big, pass>>

InitDeadline ==
    InitCalls(Callers, FullLedgers, {[t \in Callers |-> Arguments(ValidAmounts)]})

NextDeadline ==
    \/ \E t \in Callers : DeadlineExpires(t)
    \/ Next

SpecDeadline == InitDeadline /\ [][NextDeadline]_vars

(***************************************************************************)
(* A call on balances and amounts beyond machine integers.  A big.Int and  *)
(* a DECIMAL(78, 0) are held as their decimal digits, most significant     *)
(* first, and the arithmetic is done digit by digit.                       *)
(***************************************************************************)
MaxTail == 2                \* trailing digits varied in the generated inputs
DecimalPrecision == 78      \* digits a DECIMAL(78, 0) column holds

Repeat(c, n) == [i \in 1..n |-> c]

\* nat.norm: no leading zeros.
RECURSIVE Norm(_)
Norm(s) == IF Len(s) > 1 /\ s[1] = "0" THEN Norm(Tail(s)) ELSE s

\* big.Int.SetString(s, 10) for a value not negative: the digits, normalised.
BigSetString(s) ==
    LET body == IF s # <<>> /\ s[1] = "+" THEN Tail(s) ELSE s
        ok   == body # <<>> /\ \A i \in 1..Len(body) : IsDigit(body[i])
    IN  [ok |-> ok, abs |-> IF ok THEN Norm(body) ELSE <<"0">>]

\* big.Int.Cmp of two values not negative: by length, then by the first
\* digit that differs.
BigCmp(x, y) ==
    IF Len(x) # Len(y) THEN (IF Len(x) < Len(y) THEN 0 - 1 ELSE 1)
    ELSE IF x = y THEN 0
    ELSE LET i == CHOOSE k \in 1..Len(x) :
                     x[k] # y[k] /\ \A j \in 1..(k - 1) : x[j] = y[j]
         IN  IF DigitVal(x[i]) < DigitVal(y[i]) THEN 0 - 1 ELSE 1

\* y with zeros in front, to n digits.
Pad(y, n) == Repeat("0", n - Len(y)) \o y

\* nat.sub works from the least significant digit up and carries a borrow.
\* The borrow into digit i is 1 exactly when the digits of x below i make a
\* smaller number than those of y.
BorrowInto(x, y, i) ==
    \E j \in (i + 1)..Len(x) :
        /\ DigitVal(x[j]) < DigitVal(y[j])
        /\ \A k \in (i + 1)..(j - 1) : x[k] = y[k]

SubDigits_noborrow(x, y) ==
    LET yp == Pad(y, Len(x))
    IN  [i \in 1..Len(x) |->
            Digits[((DigitVal(x[i]) - DigitVal(yp[i]) + Len(Digits)) % Len(Digits)) + 1]]

SubDigits(x, y) ==
    LET yp == Pad(y, Len(x))
    IN  [i \in 1..Len(x) |->
            LET borrow == IF BorrowInto(x, yp, i) THEN 1 ELSE 0
                d == DigitVal(x[i]) - DigitVal(yp[i]) - borrow
            IN  Digits[((d + Len(Digits)) % Len(Digits)) + 1]]

\* big.Int.Sub(x, y) for x >= y >= 0.  The variant keeps the 17 leading
\* digits a float64 holds.
BigSub_float64(x, y) ==
    LET d == Norm(SubDigits(x, y))
    IN  [i \in 1..Len(d) |-> IF i <= 17 THEN d[i] ELSE "0"]

BigSub(x, y) == Norm(SubDigits(x, y))

\* The sum works from the least significant digit up and carries.  The
\* carry into digit i is 1 exactly when some digit pair below i makes ten or
\* more and every pair between makes nine.
CarryInto(x, y, i) ==
    \E j \in (i + 1)..Len(x) :
        /\ DigitVal(x[j]) + DigitVal(y[j]) >= Len(Digits)
        /\ \A k \in (i + 1)..(j - 1) : DigitVal(x[k]) + DigitVal(y[k]) = Len(Digits) - 1

AddDigits(x, y) ==
    LET n  == IF Len(x) > Len(y) THEN Len(x) ELSE Len(y)
        xp == Pad(x, n + 1)
        yp == Pad(y, n + 1)
    IN  [i \in 1..(n + 1) |->
            LET carry == IF CarryInto(xp, yp, i) THEN 1 ELSE 0
            IN  Digits[((DigitVal(xp[i]) + DigitVal(yp[i]) + carry) % Len(Digits)) + 1]]

\* balance + $1 on DECIMAL values not negative (wallet.go:68).
NumericAdd(x, y) == Norm(AddDigits(x, y))

\* A value a DECIMAL(78, 0) column takes.
FitsDecimal(x) == Len(x) <= DecimalPrecision

ErrOverflow == "pq: numeric field overflow"

\* The inputs: the balances and amounts of the tests on large amounts, and
\* numbers of some forty digits ending in any MaxTail digits out of 0, 5, 9.
Tails == [1..MaxTail -> {"0", "5", "9"}]

TestLargeBalance == Repeat("9", 46)
TestLargeAmount == [i \in 1..40 |-> Digits[(i % Len(Digits)) + 1]]
UnitLargeBalance == <<"1">> \o Repeat("0", 47)
UnitLargeAmount == <<"1">> \o Repeat("0", 46)

BigBalances ==
    {TestLargeBalance, UnitLargeBalance}
        \cup {<<"1">> \o Repeat("0", 40 - MaxTail) \o tail : tail \in Tails}

BigAmounts ==
    {TestLargeAmount, UnitLargeAmount, <<"0">> \o TestLargeAmount}
        \cup {SubSeq(TestLargeAmount, 1, 40 - MaxTail) \o tail : tail \in Tails}

BigReceivers == {<<"0">>, Repeat("9", 40), Repeat("9", DecimalPrecision)}

InitBig ==
    /\ wallets = NoRows
    /\ start = NoRows
    /\ transfers = <<>>
    /\ nextId = 1
    /\ pc = NoRows
    /\ args = NoRows
    /\ local = NoRows
    /\ writes = NoRows
    /\ pending = NoRows
    /\ result = NoRows
    /\ plan = NoRows
    /\ ncalls = 0
    /\ nsetups = 0
    /\ seen = NoWallet
    /\ expired = NoRows
    /\ pass = NoPass
    /\ \E b \in BigBalances, r \in BigReceivers, a \in BigAmounts :
          big = [pc |-> "selectSender", amount |-> a,
                 sender |-> b, receiver |-> r,
                 senderBefore |-> b, receiverBefore |-> r,
                 newSenderBalance |-> <<>>, newReceiverBalance |-> <<>>,
                 balance |-> <<>>, err |-> ""]

SmallUnchanged ==
    UNCHANGED <<wallets, transfers, nextId, pc, args, local, writes, pending,
                result, plan, start, ncalls, nsetups, seen, expired, pass>>

\* wallet.go:23-52: the amount parses and is positive, the sender's balance
\* is read, and it is less than the amount.
BigInsufficientBalance ==
    /\ big.pc = "selectSender"
    /\ LET amountBig == BigSetString(big.amount).abs
           senderBalanceBig == BigSetString(big.sender).abs
       IN  /\ BigCmp(senderBalanceBig, amountBig) < 0
           /\ big' = [big EXCEPT !.pc = "done", !.err = ErrInsufficient]
    /\ SmallUnchanged

\* wallet.go:23-59: the balance covers the amount; the new balance is
\* computed and written to the sender's row.
BigUpdateSender ==
    /\ big.pc = "selectSender"
    /\ LET amountBig == BigSetString(big.amount).abs
           senderBalanceBig == BigSetString(big.sender).abs
       IN  /\ ~(BigCmp(senderBalanceBig, amountBig) < 0)
           /\ big' = [big EXCEPT
                 !.pc = "creditReceiver",
                 !.newSenderBalance = BigSub(senderBalanceBig, amountBig)]
    /\ SmallUnchanged

\* wallet.go:61-74: UPDATE wallets SET balance = balance + $1 on the
\* receiver's row; a sum of more than 78 digits is refused and the deferred
\* Rollback runs.
BigCreditReceiver ==
    /\ big.pc = "creditReceiver"
    /\ LET sum == NumericAdd(big.receiver, BigSetString(big.amount).abs)
       IN  IF FitsDecimal(sum)
           THEN big' = [big EXCEPT !.pc = "commit", !.newReceiverBalance = sum]
           ELSE big' = [big EXCEPT !.pc = "done", !.err = ErrOverflow,
                                   !.newSenderBalance = <<>>]
    /\ SmallUnchanged

\* wallet.go:76-86: the record is inserted, the transaction commits and the
\* new sender balance is returned.
BigCommit ==
    /\ big.pc = "commit"
    /\ big' = [big EXCEPT
          !.pc = "done",
          !.sender = big.newSenderBalance,
          !.receiver = big.newReceiverBalance,
          !.balance = big.newSenderBalance,
          !.err = NoError]
    /\ SmallUnchanged

NextBig ==
    \/ BigInsufficientBalance
    \/ BigUpdateSender
    \/ BigCreditReceiver
    \/ BigCommit

SpecBig == InitBig /\ [][NextBig]_vars

(***************************************************************************)
(* Runs of two concurrent calls with a reader that sums the balances of    *)
(* all wallets, pass after pass, one point read per wallet.                *)
(***************************************************************************)
MaxPasses == 2       \* passes of the reader

ReadOrder == <<"A", "B", "X">>

PassLedgers == {l \in FullLedgers : DOMAIN l = Addresses}

\* part_002:128-134, 359-369: queryBalance reads one committed balance with
\* a statement of its own, Sscanf turns the text into a number, and the
\* number is added to the sum of the pass; after the last wallet the total
\* of the pass is compared.
QueryBalance ==
    /\ Len(pass.totals) < MaxPasses
    /\ LET balance == String(wallets[ReadOrder[pass.next]])
           balanceSum == pass.sum + SetString(balance).val
       IN  pass' = IF pass.next = Len(ReadOrder)
                   THEN [next |-> 1, sum |-> 0,
                         totals |-> Append(pass.totals, balanceSum)]
                   ELSE [pass EXCEPT !.next = @ + 1, !.sum = balanceSum]
    /\ UNCHANGED <<wallets, transfers, nextId, pc, args, local, writes, pending,
                   result, plan, start, ncalls, nsetups, seen, expired, big>>

InitPass ==
    InitCalls(Callers, PassLedgers, {[t \in Callers |-> Arguments(ValidAmounts)]})

NextPass ==
    \/ QueryBalance
    \/ \E t \in Callers :
          \/ Begin(t)
          \/ InsufficientBalance(t)
          \/ SelectSender(t)
          \/ UpdateSender(t)
          \/ ReceiverExists(t)
          \/ CreditReceiver(t)
          \/ InsertTransfer(t)
          \/ Commit(t)
          \/ DeadlockDetected(t)

SpecPass == InitPass /\ [][NextPass]_vars

(***************************************************************************)
(* The run of ReadWriteConcurrencySuite.TestInterleavedReadWrites:         *)
(* mainWallet holds 500, targetWallet 0, and Iterations concurrent calls   *)
(* move (i mod 10) + 1 from mainWallet to targetWallet, i = 0, 1, ...      *)
(***************************************************************************)
Iterations == 3      \* concurrent calls of the run

InterleavedBalance == 500

InterleavedCallers == 0..(Iterations - 1)

InterleavedLedger ==
    [a \in {"mainWallet", "targetWallet"} |->
        IF a = "mainWallet" THEN InterleavedBalance ELSE 0]

InterleavedPlan ==
    [i \in InterleavedCallers |->
        {[from |-> "mainWallet", to |-> "targetWallet",
          amount |-> String((i % 10) + 1)]}]

InitInterleaved == InitCalls(InterleavedCallers, {InterleavedLedger}, {InterleavedPlan})

NextInterleaved ==
    \E t \in InterleavedCallers :
        \/ Begin(t)
        \/ SelectSender(t)
        \/ UpdateSender(t)
        \/ ReceiverExists(t)
        \/ CreditReceiver(t)
        \/ InsertTransfer(t)
        \/ Commit(t)

SpecInterleaved == InitInterleaved /\ [][NextInterleaved]_vars

(***************************************************************************)
(* Runs of two concurrent calls in which the store may fail any statement  *)
(* of an open transaction.                                                 *)
(***************************************************************************)
InitClose ==
    InitCalls(Callers, FullLedgers, {[t \in Callers |-> Arguments(ValidAmounts)]})

NextClose ==
    \/ \E t \in Callers : StoreFailure(t)
    \/ Next

SpecClose == InitClose /\ [][NextClose]_vars

(***************************************************************************)
(* Properties.                                                             *)
(***************************************************************************)
StartBalance(a) == IF a \in DOMAIN start THEN start[a] ELSE 0

\* The sum of the amounts of the calls in S.
RECURSIVE Moved(_)
Moved(S) ==
    IF S = {} THEN 0
    ELSE LET t == CHOOSE x \in S : TRUE IN Amount(t) + Moved(S \ {t})

Debits(a) == Moved({t \in Calls : Succeeded(t) /\ args[t].from = a})

Credits(a) == Moved({t \in Calls : Succeeded(t) /\ args[t].to = a})

\* C1 (SpecSeq). Conservation, sequential: while Transfer calls run one at a
\* time, each to its end, the sum of all wallet balances stays the sum
\* before the first call, whether the calls succeed or fail.
SequentialConservation == Total(wallets) = Total(start)

\* Two transfers have committed in a run of calls made one after another.
SequentialConservationWitness ==
    /\ ncalls >= 1
    /\ Len(transfers) >= 2
    /\ wallets # start

\* C2 (Spec). Conservation, concurrent: once all the concurrent Transfer
\* calls have returned, the sum of all wallet balances is the sum before
\* the calls started.
ConcurrentConservation == AllDone => Total(wallets) = Total(start)

\* C3 (SpecSetup). Non-negativity: in every committed state, whatever
\* SetupWallet was asked to store and however the concurrent Transfer calls
\* interleave, every wallet's balance is >= 0.
NonNegative == \A a \in DOMAIN wallets : wallets[a] >= 0

\* After a SetupWallet, two concurrent transfers have both committed and a
\* wallet that held tokens is down to exactly 0.
NonNegativeWitness ==
    /\ nsetups = 1
    /\ \A t \in Calls : Succeeded(t)
    /\ \E a \in DOMAIN wallets : wallets[a] = 0 /\ start[a] > 0

\* C4 (Spec). No overdraw: the successful debits of a wallet never add up
\* to more than its starting balance plus the successful credits to it.
NoOverdraw == \A a \in Addresses : Debits(a) <= StartBalance(a) + Credits(a)

\* C5 (SpecSeq). Atomicity of failure: the committed wallets and transfers
\* change only in the step in which a call commits and returns success; no
\* step of a call that returns an error changes them, so when such a call
\* returns they are as they were when it was made.
FailureAtomic ==
    [][(wallets' # wallets \/ transfers' # transfers)
          => \E t \in Calls : pc[t] = "commit" /\ Succeeded(t)']_vars

\* The first call failed in the store after it had written the sender row,
\* the receiver row and the transfer record (its id is drawn), and the
\* tables are empty of it.
FailureAtomicWitness ==
    \E t \in Calls :
        /\ ncalls = 0
        /\ Failed(t)
        /\ result[t].err = ErrStore
        /\ nextId = 2
        /\ transfers = <<>>
        /\ wallets = start

\* C6 (SpecRace). Concurrent debit race: when the three calls have returned,
\* A holds 0, 4 or 7: 0 iff both debits succeeded, 4 iff only the debit of 7
\* did, 7 iff only the debit of 4 did.
RaceOutcome ==
    AllDone =>
        /\ wallets["A"] \in {0, RaceDebitSmall, RaceDebitLarge}
        /\ wallets["A"] = 0 <=> (Succeeded("debit4") /\ Succeeded("debit7"))
        /\ wallets["A"] = RaceDebitSmall <=> (Failed("debit4") /\ Succeeded("debit7"))
        /\ wallets["A"] = RaceDebitLarge <=> (Succeeded("debit4") /\ Failed("debit7"))

\* C7 (SpecRace). In the race, a debit of A that returns an error returns
\* 'insufficient balance', and it returns it having written nothing: its
\* transaction holds no row and the committed balances do not change.
FailedDebitInsufficient ==
    [][\A t \in {"debit4", "debit7"} :
          (pc[t] # "done" /\ Failed(t)')
              => /\ result'[t].err = ErrInsufficient
                 /\ writes[t] = NoRows
                 /\ pending[t] = <<>>
                 /\ wallets' = wallets]_vars

\* One debit of the race has failed after the other one committed.
FailedDebitWitness ==
    /\ AllDone
    /\ \E t, u \in {"debit4", "debit7"} :
          Failed(t) /\ result[t].err = ErrInsufficient /\ Succeeded(u)

\* Calls c1 and c2 both credited r from two other wallets, and succeeded.
TwoCredits(r) ==
    /\ \A t \in Calls : Succeeded(t) /\ args[t].to = r /\ args[t].from # r
    /\ args["c1"].from # args["c2"].from

\* C8 (Spec). No lost credit between credits: when two concurrent calls from
\* different senders credit the same existing receiver and both succeed, the
\* receiver ends with its starting balance plus both amounts.
NoLostCredit ==
    \A r \in DOMAIN start :
        TwoCredits(r) => wallets[r] = start[r] + Amount("c1") + Amount("c2")

\* Two concurrent credits of an existing wallet have both committed.
NoLostCreditWitness == \E r \in DOMAIN start : TwoCredits(r)

\* C9 (Spec). Concurrent credits to a new recipient: when two funded senders
\* concurrently transfer to a wallet X that does not exist beforehand, X
\* ends with the sum of both amounts.
NewRecipientCredits ==
    ( /\ AllDone
      /\ "X" \notin DOMAIN start
      /\ \A t \in Calls : args[t].to = "X" /\ StartBalance(args[t].from) >= Amount(t)
      /\ args["c1"].from # args["c2"].from )
        => ("X" \in DOMAIN wallets /\ wallets["X"] = Amount("c1") + Amount("c2"))

\* C10 (Spec). Deadlock freedom: no set of calls ever waits on each other in
\* a cycle.
NoWaitCycle == \A t \in Calls : ~InWaitCycle(t)

\* C11 (SpecBidi). Once the calls of the bidirectional run (BidiPairs times
\* W1 -> W2 of 10 and BidiPairs times W2 -> W1 of 5, both wallets starting at
\* 1000) have all returned, every call has returned success and the balances
\* are W1 = 1000 - 5 * BidiPairs and W2 = 1000 + 5 * BidiPairs.
BidiOutcome ==
    AllDone =>
        /\ \A t \in Calls : Succeeded(t)
        /\ wallets["W1"] = BidiBalance - (BidiForward - BidiBackward) * BidiPairs
        /\ wallets["W2"] = BidiBalance + (BidiForward - BidiBackward) * BidiPairs

\* The row of address a as a reader of the committed tables finds it.
CommittedRow(a) ==
    IF a \in DOMAIN wallets
    THEN [found |-> TRUE, address |-> a, balance |-> String(wallets[a])]
    ELSE NoWallet

\* The committed tables change by the whole effect of call t: its sender row
\* and its receiver row take the values t wrote, every other row stays, and
\* the record of t is the one record added.
WholeTransfer(t) ==
    /\ pc[t] = "commit"
    /\ pc'[t] = "done"
    /\ result'[t].err = NoError
    /\ DOMAIN writes[t] = {args[t].from, args[t].to}
    /\ DOMAIN wallets' = DOMAIN wallets \cup DOMAIN writes[t]
    /\ \A a \in DOMAIN wallets' :
          wallets'[a] = IF a \in DOMAIN writes[t] THEN writes[t][a] ELSE wallets[a]
    /\ Len(transfers') = Len(transfers) + 1
    /\ SubSeq(transfers', 1, Len(transfers)) = transfers
    /\ LET r == transfers'[Len(transfers')]
       IN  /\ r.from = args[t].from
           /\ r.to = args[t].to
           /\ r.amount = Amount(t)

\* C12 (SpecRead). The committed tables change only by the whole effect of
\* one transfer at once (sender row, receiver row and record together), and
\* what GetWallet returns is a row of the committed tables: no reader sees a
\* debit without its credit, or new balances without the record.
AtomicVisibility ==
    [][/\ (wallets' # wallets \/ transfers' # transfers) =>
              \E t \in Calls : WholeTransfer(t)
       /\ (seen' # seen) => \E a \in Addresses : seen' = CommittedRow(a)]_vars

\* A reader has seen the committed balance of a sender whose debit by an
\* open transfer is not committed yet, after another transfer has committed.
AtomicVisibilityWitness ==
    \E t, u \in Calls :
        /\ Succeeded(t)
        /\ Len(transfers) = 1
        /\ pc[u] = "creditReceiver"
        /\ args[u].from \in DOMAIN writes[u]
        /\ writes[u][args[u].from] # wallets[args[u].from]
        /\ seen = CommittedRow(args[u].from)

\* C13 (SpecSeq). A call whose amount is no base-10 integer, or is one that
\* is zero or negative, returns "invalid amount" in one step from being
\* made, without a transaction, and leaves every balance, the log and the
\* id counter as they were, at the first call and at every repetition.
InvalidAmountRejected ==
    [][\A t \in SeqCallers :
          (/\ pc[t] = "idle"
           /\ pc'[t] # "idle"
           /\ \/ ~SetString(args'[t].amount).ok
              \/ SetString(args'[t].amount).val <= 0)
          => /\ pc'[t] = "done"
             /\ result'[t] = [balance |-> <<>>, err |-> ErrInvalidAmount]
             /\ ~InTransaction(t)'
             /\ UNCHANGED <<wallets, transfers, nextId, writes, pending>>]_vars

\* A repeated call with amount "0" from a wallet that holds tokens has been
\* rejected.
InvalidAmountWitness ==
    \E t \in SeqCallers :
        /\ ncalls = 1
        /\ pc[t] = "done"
        /\ result[t].err = ErrInvalidAmount
        /\ args[t].amount = <<"0">>
        /\ args[t].from \in DOMAIN wallets
        /\ wallets[args[t].from] > 0

\* C14 (SpecSeq). A call with a valid positive amount whose sender has no
\* wallet returns "sender wallet does not exist" (unless the store itself
\* fails), and then the sender still has no wallet, no wallet is created or
\* credited and no record is appended.
SenderNotFoundRejected ==
    [][\A t \in SeqCallers :
          (/\ pc[t] = "selectSender"
           /\ pc'[t] # "selectSender"
           /\ args[t].from \notin DOMAIN wallets
           /\ result'[t].err # ErrStore)
          => /\ pc'[t] = "done"
             /\ result'[t] = [balance |-> <<>>, err |-> ErrSenderNotFound]
             /\ args[t].from \notin DOMAIN wallets'
             /\ wallets' = wallets
             /\ transfers' = transfers
             /\ writes'[t] = NoRows
             /\ pending'[t] = <<>>]_vars

\* A call from the missing wallet X to a missing receiver has been rejected.
SenderNotFoundWitness ==
    \E t \in SeqCallers :
        /\ pc[t] = "done"
        /\ result[t].err = ErrSenderNotFound
        /\ args[t].from = "X"
        /\ args[t].to = "X"
        /\ SetString(args[t].amount).val > 0
        /\ "X" \notin DOMAIN wallets

\* Call t returns in this step, and not because the store failed.
Returns(t) ==
    /\ pc[t] # "done"
    /\ pc'[t] = "done"
    /\ result'[t].err # ErrStore

\* A call from an existing sender returns "insufficient balance" exactly
\* when the balance is less than the amount, and then nothing was written.
InsufficientIffLess(t) ==
    (Returns(t) /\ InTransaction(t) /\ args[t].from \in DOMAIN wallets)
    => /\ result'[t].err = ErrInsufficient <=> wallets[args[t].from] < Amount(t)
       /\ result'[t].err = ErrInsufficient
          => /\ wallets' = wallets
             /\ transfers' = transfers
             /\ writes[t] = NoRows
             /\ pending[t] = <<>>

\* C15 as stated (SpecSeq). With no concurrent calls, a call from an
\* existing sender fails with "insufficient balance" if and only if the
\* balance is less than the amount, writing nothing; a transfer of exactly
\* the whole balance succeeds and leaves the sender at 0.
WholeBalanceLeavesZero ==
    [][\A t \in SeqCallers :
          /\ InsufficientIffLess(t)
          /\ (/\ Returns(t)
              /\ InTransaction(t)
              /\ args[t].from \in DOMAIN wallets
              /\ wallets[args[t].from] = Amount(t))
             => /\ result'[t].err = NoError
                /\ wallets'[args[t].from] = 0]_vars

\* C15 amended (SpecSeq). As stated, but the transfer of the whole balance
\* leaves the sender at 0 when the receiver is another wallet; sent to the
\* sender itself it succeeds and leaves the balance as it was.
InsufficientBoundary ==
    [][\A t \in SeqCallers :
          /\ InsufficientIffLess(t)
          /\ (/\ Returns(t)
              /\ InTransaction(t)
              /\ args[t].from \in DOMAIN wallets
              /\ wallets[args[t].from] = Amount(t))
             => /\ result'[t].err = NoError
                /\ wallets'[args[t].from] =
                      IF args[t].to = args[t].from THEN wallets[args[t].from] ELSE 0]_vars

\* The second call of a run has sent the sender's whole balance of 2 to
\* another wallet, and the sender is at 0.
InsufficientBoundaryWitness ==
    \E t \in SeqCallers :
        /\ ncalls = 1
        /\ Succeeded(t)
        /\ args[t].from # args[t].to
        /\ Amount(t) = MaxAmount
        /\ wallets[args[t].from] = 0
        /\ transfers[Len(transfers)].amount = MaxAmount

\* C16 (SpecSeq). With no concurrent calls, the step in which a call between
\* two distinct existing wallets returns success takes exactly the amount
\* from the sender's balance and adds exactly the amount to the receiver's.
TransferEffect ==
    [][\A t \in SeqCallers :
          (/\ Returns(t)
           /\ result'[t].err = NoError
           /\ args[t].from # args[t].to
           /\ {args[t].from, args[t].to} \subseteq DOMAIN wallets)
          => /\ wallets'[args[t].from] = wallets[args[t].from] - Amount(t)
             /\ wallets'[args[t].to] = wallets[args[t].to] + Amount(t)]_vars

\* The first call of a run has moved 1 from A holding 2 to B holding 1.
TransferEffectWitness ==
    \E t \in SeqCallers :
        /\ ncalls = 0
        /\ Succeeded(t)
        /\ args[t] = [from |-> "A", to |-> "B", amount |-> <<"1">>]
        /\ start["A"] = 2 /\ start["B"] = 1
        /\ wallets["A"] = 1 /\ wallets["B"] = 2

\* C17 (SpecSeq). The value a successful call returns is the balance the
\* sender's wallet holds in the committed state the call produces, also
\* when the sender is the receiver.
ReturnedBalance ==
    [][\A t \in SeqCallers :
          (Returns(t) /\ result'[t].err = NoError)
          => result'[t].balance = String(wallets'[args[t].from])]_vars

\* C18 (SpecSeq). With no concurrent calls, the step in which a call to a
\* receiver without a wallet returns success creates that wallet with
\* exactly the amount and takes the amount from the sender; and the set of
\* wallets changes in no other step than such a one.
NewRecipientCreated ==
    [][/\ \A t \in SeqCallers :
             (/\ Returns(t)
              /\ result'[t].err = NoError
              /\ args[t].to \notin DOMAIN wallets)
             => /\ DOMAIN wallets' = DOMAIN wallets \cup {args[t].to}
                /\ wallets'[args[t].to] = Amount(t)
                /\ wallets'[args[t].from] = wallets[args[t].from] - Amount(t)
       /\ DOMAIN wallets' # DOMAIN wallets
          => \E t \in SeqCallers :
                /\ Returns(t)
                /\ result'[t].err = NoError
                /\ DOMAIN wallets' = DOMAIN wallets \cup {args[t].to}]_vars

\* The first call of a run has sent 2 from A to X, which had no wallet.
NewRecipientWitness ==
    \E t \in SeqCallers :
        /\ ncalls = 0
        /\ Succeeded(t)
        /\ args[t] = [from |-> "A", to |-> "X", amount |-> <<"2">>]
        /\ "X" \notin DOMAIN start
        /\ wallets["X"] = 2
        /\ wallets["A"] = start["A"] - 2

\* C19 (Spec). The step in which a call returns success appends one record
\* with the call's own from, to and amount; the step in which a call returns
\* an error appends none; no other step touches the log, so a record once in
\* it stays as it is; and in every state the log holds as many records as
\* calls have returned success.
History ==
    /\ [](Len(transfers) = Cardinality({t \in Calls : Succeeded(t)}))
    /\ [][/\ \A t \in Callers :
                (pc[t] # "done" /\ pc'[t] = "done")
                => IF result'[t].err = NoError
                   THEN /\ Len(transfers') = Len(transfers) + 1
                        /\ SubSeq(transfers', 1, Len(transfers)) = transfers
                        /\ transfers'[Len(transfers')].from = args[t].from
                        /\ transfers'[Len(transfers')].to = args[t].to
                        /\ transfers'[Len(transfers')].amount = Amount(t)
                   ELSE transfers' = transfers
          /\ transfers' # transfers
             => \E t \in Callers :
                   pc[t] # "done" /\ pc'[t] = "done" /\ result'[t].err = NoError]_vars

\* Of two concurrent calls one has returned success and one an error, and
\* the log holds the one record of the first.
HistoryWitness ==
    \E t, u \in Calls :
        /\ Succeeded(t)
        /\ Failed(u)
        /\ Len(transfers) = 1
        /\ transfers[1].from = args[t].from
        /\ transfers[1].to = args[t].to
        /\ transfers[1].amount = Amount(t)

\* C20 (Spec). The ids of the committed records reflect commit order: of
\* any two records in the log, the one committed first has the smaller id,
\* also when the two calls overlapped.  (transfers lists the records in the
\* order of their commits.)
IdsInCommitOrder ==
    \A i, j \in 1..Len(transfers) :
        i < j <=> transfers[i].id < transfers[j].id

\* C21 (Spec). In every committed state the from-address and the to-address
\* of every transfer record are addresses of existing wallets.
ReferentialIntegrity ==
    \A i \in 1..Len(transfers) :
        /\ transfers[i].from \in DOMAIN wallets
        /\ transfers[i].to \in DOMAIN wallets

\* A record is committed whose receiver X had no wallet when the run began.
ReferentialIntegrityWitness ==
    /\ Len(transfers) >= 1
    /\ transfers[1].to = "X"
    /\ transfers[1].from # "X"
    /\ "X" \notin DOMAIN start
    /\ "X" \in DOMAIN wallets

\* C22 (SpecRead). A wallet that exists in a committed state exists in every
\* later one: no step of a Transfer or GetWallet call, in any interleaving,
\* removes a wallet.
WalletsNeverDeleted ==
    [][DOMAIN wallets \subseteq DOMAIN wallets']_vars

\* Two concurrent transfers have both committed, a reader has read wallet A,
\* and every wallet of the start is still there, next to the created X.
WalletsNeverDeletedWitness ==
    /\ \A t \in Calls : Succeeded(t)
    /\ Len(transfers) = 2
    /\ seen = CommittedRow("A")
    /\ "X" \notin DOMAIN start
    /\ DOMAIN wallets = DOMAIN start \cup {"X"}

\* C23 (SpecIndep). Two concurrent calls on disjoint pairs of existing
\* wallets never wait for one another: at every point of the other's
\* execution, a call inside its transaction waits for no lock and its next
\* statement can execute.
IndependentNoBlocking ==
    \A t \in Callers :
        InTransaction(t) =>
            /\ \A u \in Callers : ~WaitsFor(t, u)
            /\ ENABLED Step(t)

\* Call c1 is about to credit its receiver while call c2 holds the locks of
\* both its rows and has not committed.
IndependentWitness ==
    /\ pc["c1"] = "creditReceiver"
    /\ pc["c2"] = "commit"
    /\ DOMAIN writes["c2"] = {"C", "D"}
    /\ DOMAIN writes["c1"] = {args["c1"].from}

\* C24 (SpecDeadline). A call whose caller's deadline has passed while it
\* was in flight ends rolled back: it returns an error (of the timeout
\* class), none of its writes is committed, and it holds no row lock
\* afterwards.
Cancellation ==
    \A t \in Callers :
        (expired[t] /\ pc[t] = "done")
        => /\ Failed(t)
           /\ writes[t] = NoRows
           /\ pending[t] = <<>>

\* 10^k modulo m, and the value of a digit string modulo m.
RECURSIVE PowTen(_, _)
PowTen(k, m) ==
    IF k = 0 THEN 1 % m
    ELSE IF k % 2 = 0 THEN (PowTen(k \div 2, m) * PowTen(k \div 2, m)) % m
    ELSE (Len(Digits) * PowTen(k - 1, m)) % m

RECURSIVE Residue(_, _)
Residue(s, m) ==
    IF Len(s) = 1 THEN DigitVal(s[1]) % m
    ELSE LET h == Len(s) \div 2
         IN  (Residue(SubSeq(s, 1, h), m) * PowTen(Len(s) - h, m)
                 + Residue(SubSeq(s, h + 1, Len(s)), m)) % m

\* A decimal string as big.Int.String() and DECIMAL(78, 0) give it.
Canonical(s) ==
    /\ s # <<>>
    /\ \A i \in 1..Len(s) : IsDigit(s[i])
    /\ Len(s) > 1 => s[1] # "0"

BigSucceeded == big.pc = "done" /\ big.err = NoError

TestLargeAmountDone ==
    /\ BigSucceeded
    /\ big.senderBefore = TestLargeBalance
    /\ big.amount = TestLargeAmount
    /\ big.receiverBefore = <<"0">>

PassTotalsConstant ==
    \A i \in 1..Len(pass.totals) : pass.totals[i] = Total(start)

\* C29 (SpecInterleaved). After the concurrent calls from mainWallet,
\* holding 500, to targetWallet, holding 0, call i moving (i mod 10) + 1,
\* the two balances sum to 500 and targetWallet holds as many tokens as
\* calls have returned success.
InterleavedOutcome ==
    AllDone =>
        /\ wallets["mainWallet"] + wallets["targetWallet"] = InterleavedBalance
        /\ wallets["targetWallet"] = Cardinality({t \in Calls : Succeeded(t)})

\* C30 (Spec). A call, successful or not, writes no row but its sender's
\* and its receiver's; a step that changes the committed wallets is the
\* return of one call and leaves every wallet other than that call's
\* sender and receiver as it was, existing or not; and a step in which a
\* call returns an error changes no wallet at all.
TransferFrame ==
    /\ [](\A t \in Callers : DOMAIN writes[t] \subseteq {args[t].from, args[t].to})
    /\ [][/\ wallets' # wallets
             => \E t \in Callers :
                   /\ pc[t] # "done" /\ pc'[t] = "done"
                   /\ DOMAIN wallets' \ DOMAIN wallets \subseteq {args[t].to}
                   /\ \A a \in DOMAIN wallets \ {args[t].from, args[t].to} :
                         a \in DOMAIN wallets' /\ wallets'[a] = wallets[a]
          /\ \A t \in Callers :
                (pc[t] # "done" /\ pc'[t] = "done" /\ result'[t].err # NoError)
                => wallets' = wallets]_vars

\* A call from A to the new wallet X has committed while the other call had
\* an uncommitted write on B, and B holds what it held at the start.
TransferFrameWitness ==
    \E t, u \in Callers :
        /\ Succeeded(t)
        /\ args[t].from = "A" /\ args[t].to = "X"
        /\ "X" \notin DOMAIN start /\ "X" \in DOMAIN wallets
        /\ wallets["B"] = start["B"]
        /\ pc[u] = "receiverExists"
        /\ "B" \in DOMAIN writes[u]

\* What the records of log add to wallet a: the amounts of the records
\* naming a as receiver, minus the amounts of those naming it as sender.
RECURSIVE Net(_, _)
Net(a, log) ==
    IF log = <<>> THEN 0
    ELSE LET r == log[Len(log)]
         IN  Net(a, SubSeq(log, 1, Len(log) - 1))
                 + (IF r.to = a THEN r.amount ELSE 0)
                 - (IF r.from = a THEN r.amount ELSE 0)

\* C31 (Spec). Ledger matches its log: in every committed state, each
\* wallet's balance is its starting balance (0 for a wallet created by a
\* transfer) plus the amounts of the records naming it as receiver minus the
\* amounts of the records naming it as sender.
LedgerMatchesLog ==
    \A a \in DOMAIN wallets : wallets[a] = StartBalance(a) + Net(a, transfers)

\* Calls u and t have both returned success; u credited wallet a and t
\* debited it; u committed first, and the balance t had read is the one a
\* held before u's commit.  Both calls wrote the row of a and a row written
\* stays locked until the commit, so t wrote a after u committed: u's commit
\* fell between t's read and t's write.
CreditCommittedInsideDebit(u, t, a) ==
    /\ Succeeded(u)
    /\ Succeeded(t)
    /\ args[u].to = a
    /\ args[u].from # a
    /\ args[t].from = a
    /\ args[t].to # a
    /\ Len(transfers) = 2
    /\ transfers[1].from = args[u].from
    /\ transfers[1].to = a
    /\ transfers[2].from = a
    /\ local[t].senderBalance = String(StartBalance(a))

\* C32 (Spec). A credit is not overwritten by a concurrent debit: when a
\* call crediting wallet a commits after a concurrent call debiting a has
\* read a's balance and before that debit writes it, and both calls return
\* success, a ends with its starting balance plus the credit minus the debit.
CreditNotOverwritten ==
    \A u \in Calls : \A t \in Calls \ {u} : \A a \in DOMAIN wallets :
        CreditCommittedInsideDebit(u, t, a)
            => wallets[a] = StartBalance(a) + Amount(u) - Amount(t)

\* Call t found its receiver missing and went on to the INSERT of it.
TriedToCreate(t) ==
    /\ pc[t] = "done"
    /\ ~local[t].receiverExists
    /\ result[t].err \notin {ErrSenderNotFound, ErrInsufficient, ErrBalanceFormat}

\* Calls c1 and c2, from different senders, both tried to create wallet x,
\* which did not exist before them, and both have returned.
CreationRace(x) ==
    /\ x \notin DOMAIN start
    /\ args["c1"].from # args["c2"].from
    /\ \A t \in Calls : args[t].to = x /\ TriedToCreate(t)

\* C33 (Spec). Losing the creation race: when two concurrent calls from
\* different senders both find receiver x missing and both try to create it,
\* exactly one creates x and succeeds; the other returns the store's
\* duplicate-key error, its sender's balance, written inside its
\* transaction, is committed at its previous value, and the log holds the
\* winner's record only.  The step that returns the error discards the
\* sender row the loser had written and changes no committed table.
CreationRaceLost ==
    /\ [](\A x \in Addresses :
             CreationRace(x) =>
                 \E w \in Calls : \E l \in Calls \ {w} :
                     /\ Succeeded(w)
                     /\ result[l].err = ErrDuplicate
                     /\ result[l].err \in StoreErrors
                     /\ x \in DOMAIN wallets
                     /\ wallets[x] = Amount(w)
                     /\ wallets[args[l].from] = start[args[l].from]
                     /\ Len(transfers) = 1
                     /\ transfers[1].from = args[w].from
                     /\ transfers[1].to = x)
    /\ [][\A t \in Calls :
             (pc[t] # "done" /\ pc'[t] = "done" /\ result'[t].err = ErrDuplicate)
                 => /\ args[t].from \in DOMAIN writes[t]
                    /\ writes[t][args[t].from] # wallets[args[t].from]
                    /\ pending[t] = <<>>
                    /\ writes'[t] = NoRows
                    /\ pending'[t] = <<>>
                    /\ wallets' = wallets
                    /\ transfers' = transfers]_vars

\* Two calls from different senders both tried to create X; one committed
\* it and the other was refused.
CreationRaceLostWitness ==
    /\ CreationRace("X")
    /\ \E l \in Calls : result[l].err = ErrDuplicate
    /\ Len(transfers) = 1

\* The calls whose INSERT of a wallet row with address a has committed.
CommittedInserts(a) ==
    {t \in Calls : Succeeded(t) /\ args[t].to = a /\ ~local[t].receiverExists}

\* The rows of the committed table wallets that carry address a: the row
\* that was there before the calls, and one for every committed INSERT.
WalletRows(a) ==
    (IF a \in DOMAIN start THEN 1 ELSE 0) + Cardinality(CommittedInserts(a))

\* C34 (Spec). Unique addresses: in every committed state there is at most
\* one wallet row per address (exactly one for the addresses that have a
\* wallet), also after two concurrent calls each tried to create the same
\* new receiver.
UniqueAddresses ==
    \A a \in Addresses :
        /\ WalletRows(a) <= 1
        /\ WalletRows(a) = 1 <=> a \in DOMAIN wallets

\* Two concurrent calls both ran the INSERT of the new receiver X and have
\* returned, and one row with that address is committed.
UniqueAddressesWitness ==
    /\ "X" \notin DOMAIN start
    /\ \A t \in Calls : args[t].to = "X" /\ TriedToCreate(t)
    /\ WalletRows("X") = 1

\* C35 (SpecSeq). Self-transfer: with no concurrent calls, a call from an
\* existing wallet to itself with balance >= amount > 0 that returns (the
\* store not failing) returns success from its commit, leaves every balance
\* as it was before the call, and appends exactly one record (from, from,
\* amount).
SelfTransfer ==
    [][\A t \in Calls :
          ( /\ Returns(t)
            /\ args'[t].from = args'[t].to
            /\ ~InvalidAmountArg(args'[t].amount)
            /\ args'[t].from \in DOMAIN wallets
            /\ wallets[args'[t].from] >= SetString(args'[t].amount).val )
              => /\ pc[t] = "commit"
                 /\ result'[t].err = NoError
                 /\ wallets' = wallets
                 /\ Len(transfers') = Len(transfers) + 1
                 /\ SubSeq(transfers', 1, Len(transfers)) = transfers
                 /\ LET r == transfers'[Len(transfers')]
                    IN  /\ r.from = args[t].from
                        /\ r.to = args[t].from
                        /\ r.amount = Amount(t)]_vars

\* The first call moved a part of a wallet's balance to the wallet itself
\* and succeeded: the debit and the credit were both written to the one row.
SelfTransferWitness ==
    \E t \in Calls :
        /\ ncalls = 0
        /\ Succeeded(t)
        /\ args[t].from = args[t].to
        /\ Amount(t) < wallets[args[t].from]
        /\ Len(transfers) = 1
        /\ transfers[1].from = transfers[1].to
        /\ wallets = start

\* The error the order of the checks gives a call with arguments a on the
\* committed ledger: invalid amount first, then a missing sender, then a
\* balance below the amount; otherwise none.
ExpectedError(a, ledger) ==
    IF InvalidAmountArg(a.amount) THEN ErrInvalidAmount
    ELSE IF a.from \notin DOMAIN ledger THEN ErrSenderNotFound
    ELSE IF ledger[a.from] < SetString(a.amount).val THEN ErrInsufficient
    ELSE NoError

\* C36 (SpecSeq). Error precedence: a call that returns (the store not
\* failing) reports invalid amount if the amount is invalid, whatever the
\* sender; else sender not found if the sender has no wallet; else
\* insufficient balance if the balance is below the amount; else success,
\* whether or not the receiver has a wallet.
ErrorPrecedence ==
    [][\A t \in Calls :
          Returns(t) => result'[t].err = ExpectedError(args'[t], wallets)]_vars

\* A call from a sender without a wallet to a receiver without a wallet,
\* with amount "0", has returned 'invalid amount'.
ErrorPrecedenceWitness ==
    \E t \in Calls :
        /\ args[t].from \notin DOMAIN wallets
        /\ args[t].to \notin DOMAIN wallets
        /\ args[t].amount = <<"0">>
        /\ result[t].err = ErrInvalidAmount
        /\ ExpectedError([args[t] EXCEPT !.amount = <<"1">>], wallets) = ErrSenderNotFound

\* C37 (SpecClose). Every transaction is closed: a call that is not in a
\* transaction holds no row lock and no uncommitted write, so no call waits
\* for a call that has returned; and the step in which a call returns from
\* its transaction either commits all it wrote (on success) or leaves the
\* committed tables as they were (on any error: validation, store error at
\* any statement, duplicate key, deadlock).
TransactionClosed ==
    /\ [](\A t \in Calls :
             ~InTransaction(t) =>
                 /\ writes[t] = NoRows
                 /\ pending[t] = <<>>
                 /\ \A u \in Calls : ~WaitsFor(u, t))
    /\ [][\A t \in Calls :
             (InTransaction(t) /\ pc'[t] = "done")
                 => /\ writes'[t] = NoRows
                    /\ pending'[t] = <<>>
                    /\ IF result'[t].err = NoError
                       THEN /\ wallets' = Visible(t)
                            /\ transfers' = transfers \o pending[t]
                       ELSE /\ wallets' = wallets
                            /\ transfers' = transfers]_vars

\* A call whose commit failed in the store has returned: it had written
\* its sender row, its receiver row and its record; the other call, which
\* is at the UPDATE of one of those rows, finds the row free.
TransactionClosedWitness ==
    \E t \in Calls : \E u \in Calls \ {t} :
        /\ pc[t] = "done"
        /\ result[t].err = ErrStore
        /\ nextId = 2
        /\ transfers = <<>>
        /\ pc[u] = "updateSender"
        /\ args[u].from \in {args[t].from, args[t].to}
        /\ ~LockedByOther(u, args[u].from)

\* C38 (SpecRead). GetWallet is a pure read: a step in which no Transfer
\* call moves is a GetWallet call, and it returns the address and the last
\* committed balance of a wallet that exists, (nil, nil) for one that does
\* not, never a balance only an open transaction has written; it changes no
\* balance, creates no wallet, appends no record, and touches no
\* transaction.
GetWalletPureRead ==
    [][pc' = pc =>
          /\ \E a \in Addresses :
                seen' = IF a \in DOMAIN wallets
                        THEN [found |-> TRUE, address |-> a,
                              balance |-> String(wallets[a])]
                        ELSE NoWallet
          /\ seen'.found =>
                \A t \in Calls :
                    (seen'.address \in DOMAIN writes[t]
                        /\ writes[t][seen'.address] # wallets[seen'.address])
                            => seen'.balance # String(writes[t][seen'.address])
          /\ wallets' = wallets
          /\ transfers' = transfers
          /\ nextId' = nextId
          /\ writes' = writes
          /\ pending' = pending
          /\ result' = result]_vars

\* GetWallet has returned the committed balance of a wallet, and an open
\* transfer that has debited the wallet and inserted the new wallet X has
\* not committed: the debit is no committed balance and X is no wallet.
GetWalletPureReadWitness ==
    \E t \in Calls :
        /\ pc[t] = "commit"
        /\ transfers = <<>>
        /\ "X" \in DOMAIN writes[t]
        /\ "X" \notin DOMAIN wallets
        /\ seen.found
        /\ seen.address = args[t].from
        /\ seen.balance = String(wallets[args[t].from])
        /\ seen.balance # String(writes[t][args[t].from])

====
